---- MODULE Spec2Model ----
(***************************************************************************)
(* Attendance tracker (src/app.py): a Flask application over two SQLite    *)
(* tables, user and attendance, reached through SQLAlchemy's session.      *)
(*                                                                         *)
(* A table is a function from the primary keys of its rows to the rows.    *)
(* A handler is modelled in two steps, the way it runs against the store:  *)
(* first its queries and the decisions it takes on what they returned      *)
(* (an early return answers at once), then db.session.commit(), which      *)
(* sends the pending INSERT/UPDATE/DELETE statements in one transaction.   *)
(* The server runs handlers on several threads (app.run, line 326), so a   *)
(* commit of one request can fall between the queries and the commit of    *)
(* another: Spec has both steps as actions of their own.  SpecSeq and      *)
(* SpecAnalytics handle one request at a time, both steps in one action.   *)
(*                                                                         *)
(* Columns no handler decides on (password hash, created_at,               *)
(* check_in_time) are left out of the rows.  A timestamp is the number of  *)
(* the day it falls on.                                                    *)
(***************************************************************************)
EXTENDS Integers, FiniteSets

VARIABLES users, attendance, today, req, resp

vars == <<users, attendance, today, req, resp>>

\* Bounds of the model.
MaxUserId == 2
MaxRecId == 3
MaxDay == 2

\* check_out_time is nullable (line 47); a timestamp is a day number >= 1.
NULL == 0

----------------------------------------------------------------------------
\* The store: primary keys, constraints, the session's statements.

Max(S) == CHOOSE x \in S : \A y \in S : y <= x

Min(S) == CHOOSE x \in S : \A y \in S : x <= y

\* INTEGER PRIMARY KEY without AUTOINCREMENT: the largest key in use plus one.
NextId(table) == IF DOMAIN table = {} THEN 1 ELSE Max(DOMAIN table) + 1

Insert(table, row) ==
    [i \in DOMAIN table \cup {NextId(table)} |->
        IF i \in DOMAIN table THEN table[i] ELSE row]

Remove(table, ids) == [i \in DOMAIN table \ ids |-> table[i]]

\* UPDATE ... SET k = set[k] for the columns k of set, WHERE id = id.
Update(table, id, set) ==
    [table EXCEPT ![id] =
        [k \in DOMAIN table[id] |-> IF k \in DOMAIN set THEN set[k] ELSE table[id][k]]]

\* Mutation: the unique constraint on username alone.
UniqueUsernames(us) ==
    \A i, j \in DOMAIN us : i # j => us[i].username # us[j].username

\* unique=True on user.username and user.email.
UniqueUsers(us) ==
    \A i, j \in DOMAIN us :
        i # j => us[i].username # us[j].username /\ us[i].email # us[j].email

\* The columns an attribute assignment really changes: the session sends an
\* UPDATE only for attributes whose value differs from the loaded one.
Changed(snap, set) == [k \in {c \in DOMAIN set : set[c] # snap[c]} |-> set[k]]

Has(data, k) == k \in DOMAIN data

Response(code, message) == [code |-> code, message |-> message]

Idle == [op |-> "idle"]

\* What the first step of a handler hands on: an answer, or the pending work.
Answer(r) == [done |-> TRUE, resp |-> r]

Pending(p) == [done |-> FALSE, pend |-> p]

\* What a commit step yields: the tables and the answer.
Result(us, att, r) == [users |-> us, attendance |-> att, resp |-> r]

\* db.session.rollback() in an except block: the tables as they were.
Rollback(r) == Result(users, attendance, r)

----------------------------------------------------------------------------
\* to_dict of the two models, as far as it can fail.

\* User.to_dict on a just-committed object: the expired object is reloaded,
\* which raises when its row is gone.
UserToDictFails(us, id) == id \notin DOMAIN us

\* Attendance.to_dict reads self.user.username: it raises when the row is gone
\* or when the row's user_id resolves to no user (self.user is None).
AttendanceToDictFails(us, att, id) ==
    \/ id \notin DOMAIN att
    \/ att[id].user_id \notin DOMAIN us

----------------------------------------------------------------------------
\* datetime.fromisoformat on the JSON value of check_out_time.

JsonNull == "null"

IsoDay ==
    [s \in {"2024-01-01T17:00:00", "2024-01-02T17:00:00"} |->
        IF s = "2024-01-01T17:00:00" THEN 1 ELSE 2]

\* A day number, or NULL for the ValueError/TypeError it raises.
FromIsoFormat(s) == IF s \in DOMAIN IsoDay THEN IsoDay[s] ELSE NULL

----------------------------------------------------------------------------
\* create_user

\* Mutation: the checks without the one on the email.
create_user_checks_username_only(data) ==
    IF ~ ({"username", "email", "password"} \subseteq DOMAIN data)
    THEN Answer(Response(400, "Missing required fields"))
    ELSE IF \E i \in DOMAIN users : users[i].username = data.username
    THEN Answer(Response(400, "Username already exists"))
    ELSE Pending([op |-> "create_user", data |-> data])

create_user_checks(data) ==
    IF ~ ({"username", "email", "password"} \subseteq DOMAIN data)
    THEN Answer(Response(400, "Missing required fields"))
    ELSE IF \E i \in DOMAIN users : users[i].username = data.username
    THEN Answer(Response(400, "Username already exists"))
    ELSE IF \E i \in DOMAIN users : users[i].email = data.email
    THEN Answer(Response(400, "Email already exists"))
    ELSE Pending([op |-> "create_user", data |-> data])

create_user_commit(p) ==
    LET user == [username |-> p.data.username,
                 email |-> p.data.email,
                 role |-> IF Has(p.data, "role") THEN p.data.role ELSE "user"]
        added == Insert(users, user)
    IN  IF UniqueUsers(added)
        THEN Result(added, attendance, Response(201, "User created successfully"))
        ELSE Rollback(Response(500, "IntegrityError"))

----------------------------------------------------------------------------
\* update_user

update_user_load(user_id, data) ==
    IF user_id \notin DOMAIN users
    THEN Answer(Response(404, "User not found"))
    ELSE Pending([op |-> "update_user", id |-> user_id,
                  set |-> Changed(users[user_id],
                                  [k \in DOMAIN data \cap {"username", "email", "role"}
                                      |-> data[k]])])

update_user_commit(p) ==
    IF DOMAIN p.set # {} /\ p.id \notin DOMAIN users
    THEN Rollback(Response(500, "StaleDataError"))
    ELSE LET updated == IF DOMAIN p.set = {} THEN users ELSE Update(users, p.id, p.set)
         IN  IF ~ UniqueUsers(updated)
             THEN Rollback(Response(500, "IntegrityError"))
             ELSE IF UserToDictFails(updated, p.id)
             THEN Result(updated, attendance, Response(500, "ObjectDeletedError"))
             ELSE Result(updated, attendance, Response(200, "User updated successfully"))

----------------------------------------------------------------------------
\* delete_user

\* session.delete(user) loads user.attendance_records for the cascade.
delete_user_load(user_id) ==
    IF user_id \notin DOMAIN users
    THEN Answer(Response(404, "User not found"))
    ELSE Pending([op |-> "delete_user", id |-> user_id,
                  records |-> {r \in DOMAIN attendance : attendance[r].user_id = user_id}])

\* DELETE of each loaded attendance row by key, then of the user row; a key
\* that matches no row any more is only warned about.
delete_user_commit(p) ==
    Result(Remove(users, {p.id}), Remove(attendance, p.records),
           Response(200, "User deleted successfully"))

----------------------------------------------------------------------------
\* mark_attendance

\* Mutation: the lookup without its date filter.
first_today_any_date(user_id) ==
    LET found == {r \in DOMAIN attendance : attendance[r].user_id = user_id}
    IN  IF found = {} THEN 0 ELSE Min(found)

\* filter_by(user_id, date=today).first(): the table is scanned in key order.
first_today(user_id) ==
    LET found == {r \in DOMAIN attendance :
                     attendance[r].user_id = user_id /\ attendance[r].date = today}
    IN  IF found = {} THEN 0 ELSE Min(found)

mark_attendance_lookup(data) ==
    IF ~ Has(data, "user_id")
    THEN Answer(Response(400, "user_id is required"))
    ELSE IF data.user_id \notin DOMAIN users
    THEN Answer(Response(404, "User not found"))
    ELSE LET existing == first_today(data.user_id)
         IN  IF existing # 0 /\ attendance[existing].check_out_time = NULL
             THEN Pending([op |-> "check_out", id |-> existing, now |-> today])
             ELSE Pending([op |-> "check_in",
                           user_id |-> data.user_id,
                           status |-> IF Has(data, "status") THEN data.status ELSE "present",
                           notes |-> IF Has(data, "notes") THEN data.notes ELSE ""])

\* The UPDATE of existing.check_out_time; it raises when the row is gone.
check_out_commit(p) ==
    IF p.id \notin DOMAIN attendance
    THEN Rollback(Response(500, "StaleDataError"))
    ELSE Result(users, Update(attendance, p.id, [check_out_time |-> p.now]),
                Response(201, "Check-out recorded successfully"))

\* Mutation: a commit that looks again and closes a record found open.
check_in_commit_recheck(p) ==
    LET existing == first_today(p.user_id)
    IN  IF existing # 0 /\ attendance[existing].check_out_time = NULL
        THEN Result(users, Update(attendance, existing, [check_out_time |-> today]),
                    Response(201, "Check-out recorded successfully"))
        ELSE Result(users,
                    Insert(attendance, [user_id |-> p.user_id, check_out_time |-> NULL,
                                        status |-> p.status, notes |-> p.notes,
                                        date |-> today]),
                    Response(201, "Check-in recorded successfully"))

\* The INSERT of the new row; date takes its default when the row is written.
\* SQLite is left with foreign keys off, so user_id is not checked.
check_in_commit(p) ==
    Result(users,
           Insert(attendance, [user_id |-> p.user_id, check_out_time |-> NULL,
                               status |-> p.status, notes |-> p.notes, date |-> today]),
           Response(201, "Check-in recorded successfully"))

----------------------------------------------------------------------------
\* update_attendance

\* Mutation: a check_out_time that does not parse is stored as null.
update_attendance_load_null(attendance_id, data) ==
    IF attendance_id \notin DOMAIN attendance
    THEN Answer(Response(404, "Attendance record not found"))
    ELSE Pending([op |-> "update_attendance", id |-> attendance_id,
                  set |-> Changed(attendance[attendance_id],
                                  [k \in DOMAIN data \cap {"status", "notes", "check_out_time"}
                                      |-> IF k = "check_out_time"
                                          THEN FromIsoFormat(data[k]) ELSE data[k]])])

update_attendance_load(attendance_id, data) ==
    IF attendance_id \notin DOMAIN attendance
    THEN Answer(Response(404, "Attendance record not found"))
    ELSE IF Has(data, "check_out_time") /\ FromIsoFormat(data.check_out_time) = NULL
    THEN Answer(Response(500, "ValueError"))
    ELSE Pending([op |-> "update_attendance", id |-> attendance_id,
                  set |-> Changed(attendance[attendance_id],
                                  [k \in DOMAIN data \cap {"status", "notes", "check_out_time"}
                                      |-> IF k = "check_out_time"
                                          THEN FromIsoFormat(data[k]) ELSE data[k]])])

update_attendance_commit(p) ==
    IF DOMAIN p.set # {} /\ p.id \notin DOMAIN attendance
    THEN Rollback(Response(500, "StaleDataError"))
    ELSE LET updated == IF DOMAIN p.set = {} THEN attendance
                        ELSE Update(attendance, p.id, p.set)
         IN  IF AttendanceToDictFails(users, updated, p.id)
             THEN Result(users, updated, Response(500, "to_dict failed"))
             ELSE Result(users, updated, Response(200, "Attendance updated successfully"))

----------------------------------------------------------------------------
\* delete_attendance

delete_attendance_load(attendance_id) ==
    IF attendance_id \notin DOMAIN attendance
    THEN Answer(Response(404, "Attendance record not found"))
    ELSE Pending([op |-> "delete_attendance", id |-> attendance_id])

delete_attendance_commit(p) ==
    Result(users, Remove(attendance, {p.id}),
           Response(200, "Attendance record deleted successfully"))

----------------------------------------------------------------------------
\* Analytics.  A rate is kept in hundredths of a percent: 3333 is 33.33.

\* round(num / den * 100, 2), to the nearest hundredth (ties to even).
Round2(num, den) ==
    LET q == (num * 10000) \div den
        r == (num * 10000) % den
    IN  IF 2 * r > den \/ (2 * r = den /\ q % 2 = 1) THEN q + 1 ELSE q

CountStatus(att, status) == Cardinality({r \in DOMAIN att : att[r].status = status})

\* Mutation: the rate over the records of every status.
get_summary_response_all_records ==
    LET total_present == CountStatus(attendance, "present")
        total_absent == CountStatus(attendance, "absent")
        total_late == CountStatus(attendance, "late")
        total == Cardinality(DOMAIN attendance)
    IN  [code |-> 200, message |-> "summary",
         total_users |-> Cardinality(DOMAIN users),
         total_present |-> total_present,
         total_absent |-> total_absent,
         total_late |-> total_late,
         attendance_rate |-> IF total > 0 THEN Round2(total_present, total) ELSE 0]

get_summary_response ==
    LET total_present == CountStatus(attendance, "present")
        total_absent == CountStatus(attendance, "absent")
        total_late == CountStatus(attendance, "late")
    IN  [code |-> 200, message |-> "summary",
         total_users |-> Cardinality(DOMAIN users),
         total_present |-> total_present,
         total_absent |-> total_absent,
         total_late |-> total_late,
         attendance_rate |-> IF total_present + total_absent > 0
                             THEN Round2(total_present, total_present + total_absent)
                             ELSE 0]

get_user_analytics_response(user_id) ==
    IF user_id \notin DOMAIN users
    THEN Response(404, "User not found")
    ELSE LET mine == [r \in {x \in DOMAIN attendance : attendance[x].user_id = user_id}
                         |-> attendance[r]]
             total == Cardinality(DOMAIN mine)
             present == CountStatus(mine, "present")
         IN  [code |-> 200, message |-> "user analytics",
              user_id |-> user_id,
              total_records |-> total,
              present |-> present,
              absent |-> CountStatus(mine, "absent"),
              late |-> CountStatus(mine, "late"),
              attendance_percentage |-> IF total > 0 THEN Round2(present, total) ELSE 0]

----------------------------------------------------------------------------
\* Requests.  A JSON body is a function from the keys it holds to their values.

Usernames == {"alice", "bob"}

Emails == {"a@x.com", "b@x.com"}

UserIds == 1..MaxUserId

RecIds == 1..MaxRecId

\* Bodies of POST /api/users: complete ones, and one without a password.
CreateUserBodies ==
    {[username |-> u, email |-> e, password |-> "pw"] : u \in Usernames, e \in Emails}
    \cup {[username |-> "bob", email |-> "b@x.com"]}

\* Bodies of PUT /api/users/<id>.
UpdateUserBodies == {[username |-> u] : u \in Usernames} \cup {[email |-> e] : e \in Emails}

\* Bodies of POST /api/attendance; MaxUserId + 1 is the id of no user.
MarkBodies == {[user_id |-> u] : u \in 1..MaxUserId + 1} \cup {[notes |-> "late bus"]}

MarkBodiesAnalytics ==
    MarkBodies \cup {[user_id |-> u, status |-> s] : u \in UserIds, s \in {"absent", "late"}}

\* Bodies of PUT /api/attendance/<id>.
UpdateAttendanceBodies ==
    {[check_out_time |-> t] : t \in {"2024-01-01T17:00:00", "yesterday", JsonNull}}
    \cup {[status |-> "absent", notes |-> "sick", check_out_time |-> "yesterday"]}

UpdateAttendanceBodiesAnalytics == UpdateAttendanceBodies \cup {[status |-> "present"]}

----------------------------------------------------------------------------
\* Actions.  req is the request that has run its queries and not yet its
\* commit; resp is the answer sent last.

Init ==
    /\ users = <<>>
    /\ attendance = <<>>
    /\ today = 1
    /\ req = Idle
    /\ resp = Response(0, "")

\* The model's bound on the keys: a step that would pass it is not taken.
Fits(f) ==
    /\ DOMAIN f.users \subseteq 1..MaxUserId
    /\ DOMAIN f.attendance \subseteq 1..MaxRecId

\* An early return: nothing is written.
Answered(b) == Result(users, attendance, b.resp)

\* A handler from its first query to its answer, nothing in between; f is what
\* its early return or its commit yields.
Handle(f) ==
    /\ Fits(f)
    /\ users' = f.users
    /\ attendance' = f.attendance
    /\ resp' = f.resp
    /\ UNCHANGED <<today, req>>

\* The queries of a handler: it answers at once or is left to commit later.
Begin(b) ==
    /\ req = Idle
    /\ IF b.done
       THEN /\ resp' = b.resp
            /\ UNCHANGED <<users, attendance, today, req>>
       ELSE /\ req' = b.pend
            /\ UNCHANGED <<users, attendance, today, resp>>

\* db.session.commit() of the request left pending, and its answer.
End(f) ==
    /\ Fits(f)
    /\ users' = f.users
    /\ attendance' = f.attendance
    /\ resp' = f.resp
    /\ req' = Idle
    /\ UNCHANGED today

create_user(data) ==
    LET b == create_user_checks(data)
    IN  Handle(IF b.done THEN Answered(b) ELSE create_user_commit(b.pend))

create_user_begin(data) == Begin(create_user_checks(data))

create_user_end ==
    /\ req.op = "create_user"
    /\ End(create_user_commit(req))

update_user(user_id, data) ==
    LET b == update_user_load(user_id, data)
    IN  Handle(IF b.done THEN Answered(b) ELSE update_user_commit(b.pend))

update_user_begin(user_id, data) == Begin(update_user_load(user_id, data))

update_user_end ==
    /\ req.op = "update_user"
    /\ End(update_user_commit(req))

delete_user(user_id) ==
    LET b == delete_user_load(user_id)
    IN  Handle(IF b.done THEN Answered(b) ELSE delete_user_commit(b.pend))

delete_user_begin(user_id) == Begin(delete_user_load(user_id))

delete_user_end ==
    /\ req.op = "delete_user"
    /\ End(delete_user_commit(req))

mark_attendance_commit(p) ==
    IF p.op = "check_out" THEN check_out_commit(p) ELSE check_in_commit(p)

mark_attendance(data) ==
    LET b == mark_attendance_lookup(data)
    IN  Handle(IF b.done THEN Answered(b) ELSE mark_attendance_commit(b.pend))

mark_attendance_begin(data) == Begin(mark_attendance_lookup(data))

check_out_end ==
    /\ req.op = "check_out"
    /\ End(check_out_commit(req))

check_in_end ==
    /\ req.op = "check_in"
    /\ End(check_in_commit(req))

update_attendance(attendance_id, data) ==
    LET b == update_attendance_load(attendance_id, data)
    IN  Handle(IF b.done THEN Answered(b) ELSE update_attendance_commit(b.pend))

update_attendance_begin(attendance_id, data) ==
    Begin(update_attendance_load(attendance_id, data))

update_attendance_end ==
    /\ req.op = "update_attendance"
    /\ End(update_attendance_commit(req))

delete_attendance(attendance_id) ==
    LET b == delete_attendance_load(attendance_id)
    IN  Handle(IF b.done THEN Answered(b) ELSE delete_attendance_commit(b.pend))

delete_attendance_begin(attendance_id) == Begin(delete_attendance_load(attendance_id))

delete_attendance_end ==
    /\ req.op = "delete_attendance"
    /\ End(delete_attendance_commit(req))

get_summary ==
    /\ resp' = get_summary_response
    /\ UNCHANGED <<users, attendance, today, req>>

get_user_analytics(user_id) ==
    /\ resp' = get_user_analytics_response(user_id)
    /\ UNCHANGED <<users, attendance, today, req>>

\* The clock passes midnight.
NextDay ==
    /\ today < MaxDay
    /\ today' = today + 1
    /\ UNCHANGED <<users, attendance, req, resp>>

----------------------------------------------------------------------------
\* Spec: requests on several threads.  One request at a time is followed
\* through the gap between its queries and its commit, and any number of
\* other requests run from start to finish inside that gap.  Two requests
\* that overlap in any other way leave the same tables and answers, since
\* the queries of one commute with the queries of the other.

Next ==
    \/ \E data \in CreateUserBodies : create_user(data)
    \/ \E data \in CreateUserBodies : create_user_begin(data)
    \/ create_user_end
    \/ \E u \in UserIds, data \in UpdateUserBodies : update_user(u, data)
    \/ \E u \in UserIds, data \in UpdateUserBodies : update_user_begin(u, data)
    \/ update_user_end
    \/ \E u \in UserIds : delete_user(u)
    \/ \E u \in UserIds : delete_user_begin(u)
    \/ delete_user_end
    \/ \E data \in MarkBodies : mark_attendance(data)
    \/ \E data \in MarkBodies : mark_attendance_begin(data)
    \/ check_out_end
    \/ check_in_end
    \/ \E a \in RecIds, data \in UpdateAttendanceBodies : update_attendance(a, data)
    \/ \E a \in RecIds, data \in UpdateAttendanceBodies : update_attendance_begin(a, data)
    \/ update_attendance_end
    \/ \E a \in RecIds : delete_attendance(a)
    \/ \E a \in RecIds : delete_attendance_begin(a)
    \/ delete_attendance_end

Spec == Init /\ [][Next]_vars

----------------------------------------------------------------------------
\* SpecSeq: requests handled one at a time, over more than one day.

NextSeq ==
    \/ \E data \in CreateUserBodies : create_user(data)
    \/ \E u \in UserIds, data \in UpdateUserBodies : update_user(u, data)
    \/ \E u \in UserIds : delete_user(u)
    \/ \E data \in MarkBodies : mark_attendance(data)
    \/ \E a \in RecIds, data \in UpdateAttendanceBodies : update_attendance(a, data)
    \/ \E a \in RecIds : delete_attendance(a)
    \/ NextDay

SpecSeq == Init /\ [][NextSeq]_vars

----------------------------------------------------------------------------
\* SpecAnalytics: the two reports over tables whose records carry every
\* status, requests handled one at a time.

NextAnalytics ==
    \/ \E data \in CreateUserBodies : create_user(data)
    \/ \E u \in UserIds : delete_user(u)
    \/ \E data \in MarkBodiesAnalytics : mark_attendance(data)
    \/ \E a \in RecIds, data \in UpdateAttendanceBodiesAnalytics : update_attendance(a, data)
    \/ \E a \in RecIds : delete_attendance(a)
    \/ get_summary
    \/ \E u \in UserIds : get_user_analytics(u)

SpecAnalytics == Init /\ [][NextAnalytics]_vars

----------------------------------------------------------------------------
\* Properties.

RecordsOf(att, u, d) == {r \in DOMAIN att : att[r].user_id = u /\ att[r].date = d}

IsOpen(att, r) == att[r].check_out_time = NULL

CheckedIn == Response(201, "Check-in recorded successfully")

CheckedOut == Response(201, "Check-out recorded successfully")

\* The rows of att that att2 holds unchanged.
Kept(att, att2, ids) == \A r \in ids : r \in DOMAIN att2 /\ att2[r] = att[r]

\* C1: requests handled one after another, mark_attendance for an existing
\* user u.  With no record of u dated today it creates exactly one record, open,
\* and answers 201 check-in.  With exactly that one record, open, it creates
\* nothing, closes that record and answers 201 check-out.  With exactly that one
\* record, closed, it creates a second record, open, leaves the first closed and
\* answers 201 check-in.  Each case ends in the state the next one starts from.
C1_ThreeMarks ==
    [][\A data \in MarkBodies :
          (Has(data, "user_id") /\ data.user_id \in DOMAIN users /\ mark_attendance(data))
          => LET u == data.user_id
                 before == RecordsOf(attendance, u, today)
                 after == RecordsOf(attendance', u, today)
                 created == DOMAIN attendance' \ DOMAIN attendance
             IN  /\ before = {}
                    => /\ Cardinality(after) = 1
                       /\ created = after
                       /\ \A r \in after : IsOpen(attendance', r)
                       /\ resp' = CheckedIn
                 /\ (Cardinality(before) = 1 /\ \A r \in before : IsOpen(attendance, r))
                    => /\ created = {}
                       /\ after = before
                       /\ \A r \in before : ~ IsOpen(attendance', r)
                       /\ resp' = CheckedOut
                 /\ (Cardinality(before) = 1 /\ \A r \in before : ~ IsOpen(attendance, r))
                    => /\ Cardinality(created) = 1
                       /\ after = before \cup created
                       /\ \A r \in created : IsOpen(attendance', r)
                       /\ Kept(attendance, attendance', before)
                       /\ resp' = CheckedIn]_vars

\* After the third call: two records of the user today, the first closed, the
\* second open, on the second day, with a record of the day before left open.
C1_Witness ==
    \E u \in DOMAIN users :
        LET mine == RecordsOf(attendance, u, today)
        IN  /\ today = 2
            /\ \E r \in RecordsOf(attendance, u, 1) : IsOpen(attendance, r)
            /\ Cardinality(mine) = 2
            /\ ~ IsOpen(attendance, Min(mine))
            /\ IsOpen(attendance, Max(mine))
            /\ resp = CheckedIn

\* C2: create_user with all required fields, when a stored user holds the same
\* username or the same email as the checks run, answers 400 and leaves the
\* stored users as they were (and has nothing left to commit).
C2_DuplicateRejected ==
    [][\A data \in CreateUserBodies :
          ( /\ {"username", "email", "password"} \subseteq DOMAIN data
            /\ \E i \in DOMAIN users :
                  users[i].username = data.username \/ users[i].email = data.email
            /\ create_user(data) \/ create_user_begin(data) )
          => /\ resp'.code = 400
             /\ users' = users
             /\ req' = req]_vars

\* A user is stored and the answer sent last is the 400 for a taken email
\* (the username was free).
C2_Witness ==
    /\ DOMAIN users # {}
    /\ resp = Response(400, "Email already exists")

\* C3: a delete_user(u) that answers 200 leaves no user u and no attendance
\* record of u, and leaves the records of every other user as they were.
C3_DeleteCascades ==
    [][\A u \in UserIds :
          ( /\ delete_user(u) \/ (req.op = "delete_user" /\ req.id = u /\ delete_user_end)
            /\ resp' = Response(200, "User deleted successfully") )
          => /\ u \notin DOMAIN users'
             /\ \A r \in DOMAIN attendance' : attendance'[r].user_id # u
             /\ Kept(attendance, attendance',
                     {r \in DOMAIN attendance : attendance[r].user_id # u})]_vars

\* C4: no two stored users share a username, and no two share an email.
C4_UniqueUsers ==
    \A i, j \in DOMAIN users :
        i # j => users[i].username # users[j].username /\ users[i].email # users[j].email

\* Two users are stored, an update to a taken username or email has just been
\* refused, and a create_user that passed its checks is about to commit a
\* username that has been taken since.
C4_Witness ==
    /\ Cardinality(DOMAIN users) = 2
    /\ resp = Response(500, "IntegrityError")
    /\ req.op = "create_user"
    /\ \E i \in DOMAIN users : users[i].username = req.data.username

\* C5: a step that answers 400, 404 or 500 leaves both tables as they were.
C5_ErrorChangesNothing ==
    [][resp'.code \in {400, 404, 500} => users' = users /\ attendance' = attendance]_vars

\* C6: the summary's attendance_rate is 0 when no record is present or absent,
\* and otherwise the hundredth nearest to present / (present + absent) * 100;
\* a user's attendance_percentage is 0 when the user has no record, and
\* otherwise the hundredth nearest to present / total * 100, total counting the
\* user's records of every status.  Both answer 200.
NearestHundredth(rate, num, den) ==
    IF den = 0 THEN rate = 0
    ELSE /\ 2 * (rate * den - 10000 * num) <= den
         /\ 2 * (10000 * num - rate * den) <= den

C6_Rates ==
    /\ resp.message = "summary"
       => LET present == Cardinality({r \in DOMAIN attendance : attendance[r].status = "present"})
              absent == Cardinality({r \in DOMAIN attendance : attendance[r].status = "absent"})
          IN  /\ resp.code = 200
              /\ NearestHundredth(resp.attendance_rate, present, present + absent)
    /\ resp.message = "user analytics"
       => LET mine == {r \in DOMAIN attendance : attendance[r].user_id = resp.user_id}
              present == Cardinality({r \in mine : attendance[r].status = "present"})
          IN  /\ resp.code = 200
              /\ NearestHundredth(resp.attendance_percentage, present, Cardinality(mine))

\* A user with one present, one absent and one late record is reported at
\* 33.33 percent; the summary of the same table would be 50.
C6_Witness ==
    /\ resp.message = "user analytics"
    /\ resp.attendance_percentage = 3333
    /\ \E r \in DOMAIN attendance : attendance[r].status = "late"
    /\ \E r \in DOMAIN attendance : attendance[r].status = "absent"

\* C7: requests handled one at a time; every (user_id, date) has at most one
\* attendance record whose check_out_time is null.
C7_AtMostOneOpen ==
    \A r1, r2 \in DOMAIN attendance :
        ( /\ attendance[r1].user_id = attendance[r2].user_id
          /\ attendance[r1].date = attendance[r2].date
          /\ IsOpen(attendance, r1)
          /\ IsOpen(attendance, r2) ) => r1 = r2

\* C8: the commit of a mark_attendance looks at nothing again.  A pending
\* check-in always inserts an open record and answers check-in, whatever
\* records the user has by then; a pending check-out whose record still exists
\* inserts nothing and answers check-out, even when the record is closed by then.
C8_NoRecheck ==
    [][/\ (req.op = "check_in" /\ req' = Idle)
          => /\ Cardinality(DOMAIN attendance' \ DOMAIN attendance) = 1
             /\ \A r \in DOMAIN attendance' \ DOMAIN attendance :
                   attendance'[r].user_id = req.user_id /\ IsOpen(attendance', r)
             /\ Kept(attendance, attendance', DOMAIN attendance)
             /\ resp' = CheckedIn
       /\ (req.op = "check_out" /\ req' = Idle /\ req.id \in DOMAIN attendance)
          => /\ DOMAIN attendance' = DOMAIN attendance
             /\ Kept(attendance, attendance', DOMAIN attendance \ {req.id})
             /\ ~ IsOpen(attendance', req.id)
             /\ resp' = CheckedOut]_vars

\* Both outcomes in one state.  (a) User 1 has records 1 and 2, both open and
\* dated today: 2 was inserted by a request that looked before 1 existed.
\* (b) A request that found record 3 open is still to commit, after another
\* request has closed 3 and been answered check-out.
C8_Witness ==
    /\ DOMAIN attendance = {1, 2, 3}
    /\ \A r \in {1, 2} :
          attendance[r].user_id = 1 /\ attendance[r].date = today /\ IsOpen(attendance, r)
    /\ req.op = "check_out"
    /\ req.id = 3
    /\ ~ IsOpen(attendance, 3)
    /\ resp = CheckedOut

\* C9: every stored attendance record's user_id is the id of a stored user.
C9_UserExists == \A r \in DOMAIN attendance : attendance[r].user_id \in DOMAIN users

\* C10: a record whose check_out_time is set keeps it set as long as the record
\* exists; update_attendance with a null or unparseable check_out_time answers
\* 500 and leaves the table as it was.
C10_NeverReopened ==
    [][/\ \A r \in DOMAIN attendance \cap DOMAIN attendance' :
             ~ IsOpen(attendance, r) => ~ IsOpen(attendance', r)
       /\ \A a \in DOMAIN attendance, data \in UpdateAttendanceBodies :
             ( /\ Has(data, "check_out_time")
               /\ data.check_out_time \in {"yesterday", JsonNull}
               /\ update_attendance(a, data) \/ update_attendance_begin(a, data) )
             => /\ resp'.code = 500
                /\ attendance' = attendance
                /\ req' = req]_vars

\* A closed record is stored and the answer sent last is the 500 of a
\* check_out_time that did not parse.
C10_Witness ==
    /\ \E r \in DOMAIN attendance : ~ IsOpen(attendance, r)
    /\ resp = Response(500, "ValueError")

====
